---- MODULE Spec2Model ----
(***************************************************************************)
(* Model of OCR/extract.py: export_documents, the page-level scheduler     *)
(* that submits one unit of work per PDF page to a ProcessPoolExecutor     *)
(* under a global cap (max_outstanding) and a per-document cap             *)
(* (per_pdf_limit), and drains the completed futures.                      *)
(*                                                                         *)
(* The coordinator is one sequential process; pc is its position in        *)
(* export_documents.  The pool's workers are modelled by Complete.         *)
(***************************************************************************)
EXTENDS Integers, Sequences, FiniteSets, Bags, TLC

(* ---------------------------- bounds ----------------------------------- *)
MaxPages == 2         \* largest len(reader.pages)
MaxPerPdf == 2        \* largest per_pdf_limit argument

\* max_outstanding and max_workers arguments (0 stands for None) and
\* os.cpu_count() values
OutstandingArgs == {0, 1, 2}
WorkersArgs == {0, 1}
CpuCounts == {1, 2}

(* --------------------------- paths ------------------------------------- *)
\* A path is its directory, its stem and its suffix (pathlib.Path).
MkPath(d, s, x) == [dir |-> d, stem |-> s, suffix |-> x]

\* The files of the data directory, in the order rglob lists them.
Listing == << MkPath("a", "x", ".pdf"), MkPath("a", "y", ".txt"), MkPath("b", "x", ".PDF") >>

InputPaths == { Listing[k] : k \in 1..Len(Listing) }

\* str.lower() on the suffixes that occur.
Lower(s) == IF s = ".PDF" THEN ".pdf" ELSE s

\* p["outdir"] = str(Path("results/MD") / p.stem)
OutDir(path) == <<"results", "MD", path.stem>>

NoMd == <<>>

(* --------------------------- state ------------------------------------- *)
VARIABLES
    pdfs,                 \* list of dicts: path, num_pages, next_page, outdir
    futures,              \* dict: future handle -> [pdf, page]
    per_pdf_outstanding,  \* defaultdict(int): path -> count
    max_outstanding,      \* effective value after line 104
    per_pdf_limit,
    pool,                 \* executor: handle -> [state, path, page, outdir]
    nfut,                 \* number of futures created so far (handle source)
    pc,                   \* coordinator position
    i,                    \* position of the for loop over pdfs (line 129); 0 outside it
    submitted,            \* local flag of the admission loop
    done,                 \* the done set returned by wait()
    log,                  \* bag of per-page log records
    report                \* the quantities the final log line carries

vars == <<pdfs, futures, per_pdf_outstanding, max_outstanding,
          per_pdf_limit, pool, nfut, pc, i, submitted, done, log, report>>

(* --------------------------- helpers ----------------------------------- *)
\* faulty variant of MdPath: the file is numbered by a running count of the
\* submissions, not by the page
MdPathNumbered(path, page_number, outdir) == Append(outdir, <<path.stem, "page", nfut>>)

\* md_path = outdir / f"{path.stem}_page_{page_number}.md"
MdPath(path, page_number, outdir) == Append(outdir, <<path.stem, "page", page_number>>)

RECURSIVE SubList(_, _)
\* the entries of list s whose index is in keep, in the order of s
SubList(s, keep) ==
    IF s = <<>> THEN <<>>
    ELSE LET rest == SubList(Tail(s), { k - 1 : k \in keep \ {1} })
         IN  IF 1 \in keep THEN <<Head(s)>> \o rest ELSE rest

\* input_doc_paths: any selection of the listed files
Inputs == { SubList(Listing, keep) : keep \in SUBSET (1..Len(Listing)) }

RECURSIVE BuildPdfs(_, _)
\* lines 108-116: keep the .pdf inputs that PdfReader can open.
\* pages[p] is len(reader.pages), or -1 when PdfReader raises.
BuildPdfs(input, pages) ==
    IF input = <<>> THEN <<>>
    ELSE LET p == Head(input)
             rest == BuildPdfs(Tail(input), pages)
         IN  IF Lower(p.suffix) = ".pdf" /\ pages[p] >= 0
             THEN <<[path |-> p, num_pages |-> pages[p], next_page |-> 1,
                     outdir |-> OutDir(p)]>> \o rest
             ELSE rest

\* max_workers = max_workers or max(1, cpu - 1)
DefaultWorkers(arg, cpu) ==
    IF arg # 0 THEN arg ELSE (IF cpu - 1 > 1 THEN cpu - 1 ELSE 1)

\* max_outstanding = max_outstanding or max_workers * 4
DefaultOutstanding(arg, workers) == IF arg # 0 THEN arg ELSE workers * 4

\* any(p["next_page"] <= p["num_pages"] for p in pdfs)
AnyPending == \E k \in 1..Len(pdfs) : pdfs[k].next_page <= pdfs[k].num_pages

\* faulty variant of Eligible: the last place under the per-document cap is
\* never given out
EligibleBelowCap(k) ==
    /\ pdfs[k].next_page <= pdfs[k].num_pages
    /\ per_pdf_outstanding[pdfs[k].path] < per_pdf_limit - 1

\* faulty variant of Eligible: a document at its cap is still eligible
EligibleAtCap(k) ==
    /\ pdfs[k].next_page <= pdfs[k].num_pages
    /\ per_pdf_outstanding[pdfs[k].path] <= per_pdf_limit

\* faulty variant of Eligible: the test next_page <= num_pages is left out
EligibleNoPageTest(k) ==
    per_pdf_outstanding[pdfs[k].path] < per_pdf_limit

\* the condition of line 130 for the k-th document
Eligible(k) ==
    /\ pdfs[k].next_page <= pdfs[k].num_pages
    /\ per_pdf_outstanding[pdfs[k].path] < per_pdf_limit

Handles == DOMAIN futures

\* faulty variant of LoopCond: the loop forgets the futures still in flight
LoopCondPagesOnly == AnyPending

\* the condition of line 125
LoopCond == AnyPending \/ Handles # {}

\* faulty variant of HasRoom: off by one, admits at the cap
HasRoomAtCap == Cardinality(Handles) <= max_outstanding

\* the condition of line 127
HasRoom == Cardinality(Handles) < max_outstanding

\* faulty variant of Decrement: each drained unit releases two places
DecrementByTwo(n) == IF n - 2 > 0 THEN n - 2 ELSE 0

\* faulty variant of Decrement: the counter is not released when a unit is drained
NoDecrement(n) == n

\* line 159: max(0, per_pdf_outstanding[pdf_path] - 1)
Decrement(n) == IF n - 1 > 0 THEN n - 1 ELSE 0

\* faulty variant of Meta: the page is read after next_page was advanced
MetaAfterAdvance(p) == [pdf |-> p.path, page |-> p.next_page + 1]

\* line 134: the metadata kept for a submitted future
Meta(p) == [pdf |-> p.path, page |-> p.next_page]

\* A per-page log record.  kind is the prefix of the message, res what the
\* message shows of the result ("None" when there is none), md the output file.
LogRec(kind, pdf, page, res, md) ==
    [kind |-> kind, pdf |-> pdf, page |-> page, res |-> res, md |-> md]

\* faulty variant of SubmitFailLog: the submission failure is swallowed
SubmitFailSilent(p, pg) == EmptyBag

\* line 140: the record logged when executor.submit raises for page pg of p
SubmitFailLog(p, pg) == SetToBag({ LogRec("SUBMIT_FAIL", p.path, pg, "None", NoMd) })

\* faulty variant of DrainLog: a future that raised leaves no record
DrainLogDropsCrash(meta, args, outcome) ==
    IF outcome = "raised" THEN EmptyBag
    ELSE SetToBag({
        IF outcome = "ok"
        THEN LogRec("OK", args.path, args.page, "ok",
                    MdPath(args.path, args.page, args.outdir))
        ELSE LogRec("ERR", meta.pdf, meta.page, "err", NoMd) })

\* lines 152-164: the record logged for a drained future.  args are the
\* arguments process_page was called with; it echoes them in its result.
\* (The message of line 156 names no page; line 164 follows it and does.)
DrainLog(meta, args, outcome) ==
    SetToBag({
        IF outcome = "ok"
        THEN LogRec("OK", args.path, args.page, "ok",
                    MdPath(args.path, args.page, args.outdir))
        ELSE IF outcome = "err"
        THEN LogRec("ERR", meta.pdf, meta.page, "err", NoMd)
        ELSE LogRec("ERR", meta.pdf, meta.page, "None", NoMd) })

(* --------------------------- Init -------------------------------------- *)
Init ==
    /\ \E input \in Inputs :
       \E pages \in [InputPaths -> -1..MaxPages] :
          pdfs = BuildPdfs(input, pages)
    /\ \E w \in WorkersArgs, cpu \in CpuCounts, o \in OutstandingArgs :
          max_outstanding = DefaultOutstanding(o, DefaultWorkers(w, cpu))
    /\ per_pdf_limit \in 0..MaxPerPdf
    /\ futures = <<>>
    /\ per_pdf_outstanding = [p \in InputPaths |-> 0]
    /\ pool = <<>>
    /\ nfut = 0
    /\ pc = "loop"
    /\ i = 0
    /\ submitted = FALSE
    /\ done = {}
    /\ log = EmptyBag
    /\ report = <<>>

(* ------------------------ coordinator ---------------------------------- *)
\* line 125, condition true: enter the loop body
LoopEnter ==
    /\ pc = "loop"
    /\ LoopCond
    /\ pc' = "admit"
    /\ UNCHANGED <<pdfs, futures, per_pdf_outstanding, max_outstanding,
                   per_pdf_limit, pool, nfut, i, submitted, done, log, report>>

\* line 125, condition false: leave the loop; lines 166-167 log the elapsed time
LoopExit ==
    /\ pc = "loop"
    /\ ~LoopCond
    /\ pc' = "done"
    /\ report' = [total_elapsed |-> "seconds"]
    /\ UNCHANGED <<pdfs, futures, per_pdf_outstanding, max_outstanding,
                   per_pdf_limit, pool, nfut, i, submitted, done, log>>

\* line 127: while len(futures) < max_outstanding
AdmitTest ==
    /\ pc = "admit"
    /\ IF HasRoom
       THEN /\ submitted' = FALSE
            /\ i' = 1
            /\ pc' = "scan"
       ELSE /\ pc' = "check"
            /\ UNCHANGED <<submitted, i>>
    /\ UNCHANGED <<pdfs, futures, per_pdf_outstanding, max_outstanding,
                   per_pdf_limit, pool, nfut, done, log, report>>

\* lines 129-130: the document under the cursor is not eligible
ScanSkip ==
    /\ pc = "scan"
    /\ i <= Len(pdfs)
    /\ ~Eligible(i)
    /\ i' = i + 1
    /\ UNCHANGED <<pdfs, futures, per_pdf_outstanding, max_outstanding,
                   per_pdf_limit, pool, nfut, pc, submitted, done, log, report>>

\* faulty variant of SubmitOk: the document's counter is not raised
SubmitOkUncounted ==
    /\ pc = "scan"
    /\ i <= Len(pdfs)
    /\ Eligible(i)
    /\ LET p == pdfs[i]
           pg == p.next_page
           fut == nfut + 1
       IN  /\ pool' = (fut :> [state |-> "pending", path |-> p.path, page |-> pg,
                                outdir |-> p.outdir]) @@ pool
           /\ futures' = (fut :> [pdf |-> p.path, page |-> pg]) @@ futures
           /\ pdfs' = [pdfs EXCEPT ![i].next_page = @ + 1]
           /\ nfut' = fut
    /\ submitted' = TRUE
    /\ i' = 0
    /\ pc' = "admit"
    /\ UNCHANGED <<per_pdf_outstanding, max_outstanding, per_pdf_limit, done,
                   log, report>>

\* lines 131-138: executor.submit returns a future
SubmitOk ==
    /\ pc = "scan"
    /\ i <= Len(pdfs)
    /\ Eligible(i)
    /\ LET p == pdfs[i]
           pg == p.next_page
           fut == nfut + 1
       IN  /\ pool' = (fut :> [state |-> "pending", path |-> p.path, page |-> pg,
                                outdir |-> p.outdir]) @@ pool
           /\ futures' = (fut :> Meta(p)) @@ futures
           /\ per_pdf_outstanding' =
                 [per_pdf_outstanding EXCEPT ![p.path] = @ + 1]
           /\ pdfs' = [pdfs EXCEPT ![i].next_page = @ + 1]
           /\ nfut' = fut
    /\ submitted' = TRUE
    /\ i' = 0
    /\ pc' = "admit"
    /\ UNCHANGED <<max_outstanding, per_pdf_limit, done, log, report>>

\* faulty variant of SubmitRaise: the counter is raised before the failing submit
SubmitRaiseCounted ==
    /\ pc = "scan"
    /\ i <= Len(pdfs)
    /\ Eligible(i)
    /\ LET p == pdfs[i]
       IN  /\ log' = log (+) SubmitFailLog(p, p.next_page)
           /\ per_pdf_outstanding' =
                 [per_pdf_outstanding EXCEPT ![p.path] = @ + 1]
           /\ pdfs' = [pdfs EXCEPT ![i].next_page = @ + 1]
    /\ i' = i + 1
    /\ UNCHANGED <<futures, max_outstanding,
                   per_pdf_limit, pool, nfut, pc, submitted, done, report>>

\* faulty variant of SubmitRaise: the page is kept for a later retry (its
\* failure is recorded once)
SubmitRaiseRetry ==
    /\ pc = "scan"
    /\ i <= Len(pdfs)
    /\ Eligible(i)
    /\ LET p == pdfs[i]
           rec == LogRec("SUBMIT_FAIL", p.path, p.next_page, "None", NoMd)
       IN  log' = IF CopiesIn(rec, log) = 0
                  THEN log (+) SubmitFailLog(p, p.next_page) ELSE log
    /\ i' = i + 1
    /\ UNCHANGED <<pdfs, futures, per_pdf_outstanding, max_outstanding,
                   per_pdf_limit, pool, nfut, pc, submitted, done, report>>

\* lines 139-141: executor.submit raises; the for loop goes on
SubmitRaise ==
    /\ pc = "scan"
    /\ i <= Len(pdfs)
    /\ Eligible(i)
    /\ LET p == pdfs[i]
       IN  /\ log' = log (+) SubmitFailLog(p, p.next_page)
           /\ pdfs' = [pdfs EXCEPT ![i].next_page = @ + 1]
    /\ i' = i + 1
    /\ UNCHANGED <<futures, per_pdf_outstanding, max_outstanding,
                   per_pdf_limit, pool, nfut, pc, submitted, done, report>>

\* lines 142-143: the for loop ran out of documents
ScanEnd ==
    /\ pc = "scan"
    /\ i > Len(pdfs)
    /\ pc' = IF ~submitted THEN "check" ELSE "admit"
    /\ i' = 0
    /\ UNCHANGED <<pdfs, futures, per_pdf_outstanding, max_outstanding,
                   per_pdf_limit, pool, nfut, submitted, done, log, report>>

\* lines 145-147: nothing outstanding: sleep and go back to line 125
Sleep ==
    /\ pc = "check"
    /\ Handles = {}
    /\ pc' = "loop"
    /\ UNCHANGED <<pdfs, futures, per_pdf_outstanding, max_outstanding,
                   per_pdf_limit, pool, nfut, i, submitted, done, log, report>>

\* faulty variant of WaitCall: wait is called even when futures is empty
WaitCallUnguarded ==
    /\ pc = "check"
    /\ pc' = "wait"
    /\ UNCHANGED <<pdfs, futures, per_pdf_outstanding, max_outstanding,
                   per_pdf_limit, pool, nfut, i, submitted, done, log, report>>

\* line 149: call wait(futures.keys(), FIRST_COMPLETED)
WaitCall ==
    /\ pc = "check"
    /\ Handles # {}
    /\ pc' = "wait"
    /\ UNCHANGED <<pdfs, futures, per_pdf_outstanding, max_outstanding,
                   per_pdf_limit, pool, nfut, i, submitted, done, log, report>>

Finished(f) == pool[f].state = "finished"

\* line 149: wait returns once at least one future is finished
WaitReturn ==
    /\ pc = "wait"
    /\ \E f \in Handles : Finished(f)
    /\ done' = { f \in Handles : Finished(f) }
    /\ pc' = "drain"
    /\ UNCHANGED <<pdfs, futures, per_pdf_outstanding, max_outstanding,
                   per_pdf_limit, pool, nfut, i, submitted, log, report>>

\* what fut.result() yields (line 154): process_page returned status ok,
\* returned status err, or the call raised
ResultOutcomes == {"ok", "err", "raised"}

\* faulty variant of Drain: a failed page skips the release of the counter
DrainErrKeepsCounter(fut, outcome) ==
    /\ pc = "drain"
    /\ fut \in done
    /\ LET meta == futures[fut]
       IN  /\ futures' = [f \in Handles \ {fut} |-> futures[f]]
           /\ per_pdf_outstanding' =
                 IF outcome = "err" THEN per_pdf_outstanding
                 ELSE [per_pdf_outstanding EXCEPT ![meta.pdf] = Decrement(@)]
           /\ log' = log (+) DrainLog(meta, pool[fut], outcome)
    /\ pool' = [f \in DOMAIN pool \ {fut} |-> pool[f]]
    /\ done' = done \ {fut}
    /\ UNCHANGED <<pdfs, max_outstanding, per_pdf_limit, nfut, pc, i,
                   submitted, report>>

\* lines 150-164: one iteration of "for fut in done"
Drain(fut, outcome) ==
    /\ pc = "drain"
    /\ fut \in done
    /\ LET meta == futures[fut]
       IN  /\ futures' = [f \in Handles \ {fut} |-> futures[f]]
           /\ per_pdf_outstanding' =
                 [per_pdf_outstanding EXCEPT ![meta.pdf] = Decrement(@)]
           /\ log' = log (+) DrainLog(meta, pool[fut], outcome)
    /\ pool' = [f \in DOMAIN pool \ {fut} |-> pool[f]]
    /\ done' = done \ {fut}
    /\ UNCHANGED <<pdfs, max_outstanding, per_pdf_limit, nfut, pc, i,
                   submitted, report>>

\* the for loop of line 150 is over: back to line 125
DrainEnd ==
    /\ pc = "drain"
    /\ done = {}
    /\ pc' = "loop"
    /\ UNCHANGED <<pdfs, futures, per_pdf_outstanding, max_outstanding,
                   per_pdf_limit, pool, nfut, i, submitted, done, log, report>>

(* --------------------------- workers ----------------------------------- *)
\* a worker process finishes the call of process_page
Complete(f) ==
    /\ f \in DOMAIN pool
    /\ pool[f].state = "pending"
    /\ pool' = [pool EXCEPT ![f].state = "finished"]
    /\ UNCHANGED <<pdfs, futures, per_pdf_outstanding, max_outstanding,
                   per_pdf_limit, nfut, pc, i, submitted, done, log, report>>

(* --------------------------- specification ----------------------------- *)
Coordinator ==
    \/ LoopEnter \/ LoopExit \/ AdmitTest \/ ScanSkip \/ SubmitOk \/ SubmitRaise
    \/ ScanEnd \/ Sleep \/ WaitCall \/ WaitReturn
    \/ (\E f \in done : \E o \in ResultOutcomes : Drain(f, o))
    \/ DrainEnd

Workers ==
    \E f \in DOMAIN pool : Complete(f)

Next == Coordinator \/ Workers

Spec == Init /\ [][Next]_vars

\* every handle a batch can need: one per page of every listed file
AllHandles == 1..(Len(Listing) * MaxPages)

\* The coordinator is a running thread, and every call handed to the pool
\* eventually finishes.
FairSpec ==
    /\ Spec
    /\ WF_vars(Coordinator)
    /\ \A f \in AllHandles : WF_vars(Complete(f))

(* ======================= properties ==================================== *)
Docs == 1..Len(pdfs)

\* the units in flight that belong to the document with this path
UnitsOf(path) == { f \in Handles : futures[f].pdf = path }

\* the units in flight for page pg of the document with this path
UnitsOfPage(path, pg) == { f \in Handles : futures[f] = [pdf |-> path, page |-> pg] }

\* the records a page can leave in the log
OkRec(path, pg) == LogRec("OK", path, pg, "ok", MdPath(path, pg, OutDir(path)))
ErrRec(path, pg) == LogRec("ERR", path, pg, "err", NoMd)
CrashRec(path, pg) == LogRec("ERR", path, pg, "None", NoMd)
SubmitFailRec(path, pg) == LogRec("SUBMIT_FAIL", path, pg, "None", NoMd)

PageRecs(path, pg) ==
    { OkRec(path, pg), ErrRec(path, pg), CrashRec(path, pg), SubmitFailRec(path, pg) }

\* how many Results (successes and failures) are recorded for a page
ResultCount(path, pg) ==
    CopiesIn(OkRec(path, pg), log) + CopiesIn(ErrRec(path, pg), log)
    + CopiesIn(CrashRec(path, pg), log) + CopiesIn(SubmitFailRec(path, pg), log)

\* every record of the log is a Result of a page of a document of the batch
LogWithinBatch ==
    \A r \in BagToSet(log) :
        \E k \in Docs : \E pg \in 1..pdfs[k].num_pages : r \in PageRecs(pdfs[k].path, pg)

(* ----------------------------------------------------------------------- *)
\* C1 Cap invariant: in every reachable state the number of outstanding
\* units (entries of futures) is at most max_outstanding, and for every
\* document both its counter per_pdf_outstanding and the number of its units
\* really in flight are at most per_pdf_limit.
C1_CapInvariant ==
    /\ Cardinality(Handles) <= max_outstanding
    /\ \A k \in Docs :
          /\ per_pdf_outstanding[pdfs[k].path] <= per_pdf_limit
          /\ Cardinality(UnitsOf(pdfs[k].path)) <= per_pdf_limit

\* the global cap binds: as many units as allowed are in flight while a
\* document is still eligible under line 130
C1_Witness ==
    /\ pc = "wait"
    /\ Cardinality(Handles) = max_outstanding
    /\ \E k \in Docs : Eligible(k)

(* ----------------------------------------------------------------------- *)
\* C2 Completeness: when export_documents has terminated, every document
\* with num_pages = P has exactly one Result for each page of 1..P and no
\* other Result: P Results, no page twice, no page missing.
C2_Completeness ==
    pc = "done" =>
        /\ \A k \in Docs : \A pg \in 1..pdfs[k].num_pages :
              ResultCount(pdfs[k].path, pg) = 1
        /\ LogWithinBatch

\* a terminated batch of two documents, one of them with several pages
C2_Witness ==
    /\ pc = "done"
    /\ Len(pdfs) = 2
    /\ pdfs[1].num_pages >= 2
    /\ pdfs[2].num_pages >= 1
    /\ BagCardinality(log) = pdfs[1].num_pages + pdfs[2].num_pages

(* ----------------------------------------------------------------------- *)
\* page pg of the document was admitted to the pool and its Result drained
Completed(path, pg) ==
    CopiesIn(OkRec(path, pg), log) + CopiesIn(ErrRec(path, pg), log)
    + CopiesIn(CrashRec(path, pg), log) = 1

\* page pg was attempted and is settled: completed, or its submission failed
Settled(path, pg) == ResultCount(path, pg) = 1

AllPagesSettled ==
    \A k \in Docs : \A pg \in 1..pdfs[k].num_pages : Settled(pdfs[k].path, pg)

\* C3 No starvation, as amended: if per_pdf_limit >= 1 and every outstanding
\* unit eventually completes, every page of every document is eventually
\* attempted and settled: admitted and completed, or, when executor.submit
\* raises for it, skipped with the failure logged.
C3_NoStarvation == (per_pdf_limit >= 1) ~> AllPagesSettled

\* C3 as stated, at the end of the run: with per_pdf_limit >= 1 every page
\* of every document has been admitted and has completed.
C3_AsStated ==
    (pc = "done" /\ per_pdf_limit >= 1) =>
        \A k \in Docs : \A pg \in 1..pdfs[k].num_pages : Completed(pdfs[k].path, pg)

\* a one-page document listed behind a larger one: all pages settled, the
\* small document's page completed, one page of the large one skipped
C3_Witness ==
    /\ per_pdf_limit >= 1
    /\ Len(pdfs) = 2
    /\ pdfs[1].num_pages = MaxPages
    /\ pdfs[2].num_pages = 1
    /\ AllPagesSettled
    /\ Completed(pdfs[2].path, 1)
    /\ Completed(pdfs[1].path, MaxPages)
    /\ CopiesIn(SubmitFailRec(pdfs[1].path, 1), log) = 1

(* ----------------------------------------------------------------------- *)
\* C4 Termination condition: the loop is left only in a state where every
\* document has next_page > num_pages, futures is empty and every
\* per-document counter is 0.
C4_TerminationCondition ==
    pc = "done" =>
        /\ \A k \in Docs : pdfs[k].next_page > pdfs[k].num_pages
        /\ Handles = {}
        /\ DOMAIN pool = {}
        /\ \A p \in InputPaths : per_pdf_outstanding[p] = 0

\* the loop was left after units had been submitted and drained
C4_Witness ==
    /\ pc = "done"
    /\ nfut >= 2

(* ----------------------------------------------------------------------- *)
\* the step adds one copy of record r to the log
Added(r) == CopiesIn(r, log') = CopiesIn(r, log) + 1

\* the bookkeeping of draining unit f: f alone leaves futures, its
\* document's counter goes down by one, no next_page changes
DrainBookkeeping(f) ==
    /\ f \in Handles
    /\ futures' = [g \in Handles \ {f} |-> futures[g]]
    /\ per_pdf_outstanding[futures[f].pdf] >= 1
    /\ per_pdf_outstanding' =
          [per_pdf_outstanding EXCEPT ![futures[f].pdf] = @ - 1]
    /\ pdfs' = pdfs

\* every document's cursor has passed its last page
AllExhausted == \A k \in Docs : pdfs[k].next_page = pdfs[k].num_pages + 1

\* C5 Failure isolation: a page whose worker returns status err is drained
\* with the bookkeeping of a success (unit removed, counter decremented,
\* next_page not rolled back); and at the end every next_page has reached
\* num_pages + 1 and every page has its own Result.
C5_FailureIsolation ==
    /\ [][ (log' # log) =>
             \A k \in Docs : \A pg \in 1..pdfs[k].num_pages :
                (Added(ErrRec(pdfs[k].path, pg)) \/ Added(OkRec(pdfs[k].path, pg)))
                    => \E f \in UnitsOfPage(pdfs[k].path, pg) : DrainBookkeeping(f) ]_vars
    /\ [](pc = "done" => (AllExhausted /\ AllPagesSettled))

\* a finished batch in which page 1 of a document failed extraction and
\* page 2 of the same document succeeded
C5_Witness ==
    /\ pc = "done"
    /\ \E k \in Docs :
          /\ pdfs[k].num_pages >= 2
          /\ CopiesIn(ErrRec(pdfs[k].path, 1), log) = 1
          /\ CopiesIn(OkRec(pdfs[k].path, 2), log) = 1

(* ----------------------------------------------------------------------- *)
\* the step is a failed executor.submit: the coordinator stands on an
\* eligible document and the step, not one of a worker, creates no future
SubmitFailedStep ==
    /\ pc = "scan"
    /\ i <= Len(pdfs)
    /\ Eligible(i)
    /\ pool' = pool
    /\ nfut' = nfut

\* C6 No unit lost on submission failure: when executor.submit raises for
\* page N of document D, one failure record carrying (D, N) is logged; and
\* every page for which submission was attempted has exactly one Result,
\* recorded or still to come from its unit in flight, and no other page has any.
C6_SubmitFailureRecorded ==
    /\ [][ SubmitFailedStep =>
             log' = log (+) SetToBag({SubmitFailRec(pdfs[i].path, pdfs[i].next_page)}) ]_vars
    /\ [](\A k \in Docs : \A pg \in 1..pdfs[k].num_pages :
             ResultCount(pdfs[k].path, pg)
               + Cardinality(UnitsOfPage(pdfs[k].path, pg))
             = IF pg < pdfs[k].next_page THEN 1 ELSE 0)

\* a finished batch with a page whose submission failed next to a page
\* that was submitted and drained
C6_Witness ==
    /\ pc = "done"
    /\ \E k \in Docs :
          /\ pdfs[k].num_pages >= 2
          /\ CopiesIn(SubmitFailRec(pdfs[k].path, 1), log) = 1
          /\ Completed(pdfs[k].path, 2)

(* ----------------------------------------------------------------------- *)
\* C7 Submission-failure bookkeeping: when executor.submit raises for page N
\* of D, D's next_page grows by exactly one, no counter and no entry of
\* futures changes and no other document changes; no next_page ever goes
\* back; and every counter equals the number of units really in flight.
C7_SubmitFailureBookkeeping ==
    /\ [][ SubmitFailedStep =>
             /\ pdfs' = [pdfs EXCEPT ![i].next_page = pdfs[i].next_page + 1]
             /\ per_pdf_outstanding' = per_pdf_outstanding
             /\ futures' = futures ]_vars
    /\ [][ \A k \in Docs : pdfs'[k].next_page >= pdfs[k].next_page ]_vars
    /\ [](\A p \in InputPaths : per_pdf_outstanding[p] = Cardinality(UnitsOf(p)))

\* right after a failed submit of page 1 of the first of two documents,
\* with a unit of the other document in flight
C7_Witness ==
    /\ Len(pdfs) = 2
    /\ pdfs[1].next_page = 2
    /\ CopiesIn(SubmitFailRec(pdfs[1].path, 1), log) = 1
    /\ per_pdf_outstanding[pdfs[1].path] = 0
    /\ per_pdf_outstanding[pdfs[2].path] = 1
    /\ Cardinality(Handles) = 1

(* ----------------------------------------------------------------------- *)
\* C8 Admission priority: every unit admitted belongs to the earliest
\* document of the list that is eligible (line 130) at the moment of
\* admission: no unit of a later document is admitted while an earlier
\* document is eligible (the scan restarts from the head of the list after
\* every admission attempt).
C8_AdmissionPriority ==
    [][ (nfut' = nfut + 1) =>
          \E k \in Docs :
             /\ Eligible(k)
             /\ \A j \in 1..(k - 1) : ~Eligible(j)
             /\ futures'[nfut'].pdf = pdfs[k].path ]_vars

(* ----------------------------------------------------------------------- *)
\* C9 Worker crash handling: when a drained future raises, its unit is
\* removed from futures, its document's counter is decremented and a failure
\* is recorded for its (document, page); no unit stays outstanding forever,
\* and the batch goes on until every page, also those not yet submitted at
\* the time of the crash, has its Result.
C9_WorkerCrash ==
    /\ [][ (log' # log) =>
             \A k \in Docs : \A pg \in 1..pdfs[k].num_pages :
                Added(CrashRec(pdfs[k].path, pg))
                    => \E f \in UnitsOfPage(pdfs[k].path, pg) \cap done :
                           DrainBookkeeping(f) ]_vars
    /\ [](pc = "done" => (Handles = {} /\ AllPagesSettled))
    /\ \A f \in AllHandles : (f \in Handles) ~> (f \notin Handles)
    /\ (per_pdf_limit >= 1) ~> (pc = "done")

\* a finished batch in which the future of page 1 raised and page 2 of the
\* same document, submitted later, was completed
C9_Witness ==
    /\ pc = "done"
    /\ per_pdf_limit = 1
    /\ \E k \in Docs :
          /\ pdfs[k].num_pages >= 2
          /\ CopiesIn(CrashRec(pdfs[k].path, 1), log) = 1
          /\ Completed(pdfs[k].path, 2)

(* ----------------------------------------------------------------------- *)
\* the Results recorded during the batch, and those of them with status ok
ResultsRecorded == BagCardinality(log)
RECURSIVE SumCopies(_)
SumCopies(recs) ==
    IF recs = {} THEN 0
    ELSE LET r == CHOOSE x \in recs : TRUE
         IN  CopiesIn(r, log) + SumCopies(recs \ {r})
SuccessesRecorded == SumCopies({ r \in BagToSet(log) : r.kind = "OK" })

\* C10 Aggregate report: on termination the scheduler reports the count of
\* successes and the count of failures, and the two add up to the number of
\* Results recorded (successes = Results with status ok).
C10_AggregateReport ==
    pc = "done" =>
        /\ {"ok", "err"} \subseteq DOMAIN report
        /\ report["ok"] = SuccessesRecorded
        /\ report["ok"] + report["err"] = ResultsRecorded

(* ----------------------------------------------------------------------- *)
\* the destination the specification assigns to page pg of a document:
\* results/MD/<stem>/<stem>_page_<pg>.md
Destination(path, pg) == <<"results", "MD", path.stem, <<path.stem, "page", pg>>>>

\* C11 Idempotent output mapping: the output destination of a unit is a
\* function of (document, page) alone: whatever the caps, the admission
\* order and the completion order, every unit handed to the pool carries
\* the output directory of its document and every success recorded for
\* (document, page) names the same destination.
C11_OutputMapping ==
    /\ \A f \in DOMAIN pool :
          MdPath(pool[f].path, pool[f].page, pool[f].outdir)
              = Destination(pool[f].path, pool[f].page)
    /\ \A r \in BagToSet(log) :
          r.kind = "OK" => r.md = Destination(r.pdf, r.page)

\* both pages of the second document were written, page 2 before page 1
\* was drained
C11_Witness ==
    /\ Len(pdfs) = 2
    /\ pdfs[2].num_pages = 2
    /\ CopiesIn(OkRec(pdfs[2].path, 2), log) = 1
    /\ UnitsOfPage(pdfs[2].path, 1) # {}
    /\ CopiesIn(OkRec(pdfs[1].path, 1), log) = 1

(* ----------------------------------------------------------------------- *)
\* C12 Work-conserving admission: whenever the admission phase has ended
\* (the coordinator is about to wait or to sleep), either the number of
\* outstanding units equals max_outstanding or no document is eligible.
C12_WorkConserving ==
    pc = "check" =>
        \/ Cardinality(Handles) = max_outstanding
        \/ \A k \in Docs : ~Eligible(k)

(* ----------------------------------------------------------------------- *)
\* C13 Termination under failures: with per_pdf_limit >= 1 (max_outstanding
\* is always >= 1 after the defaults of lines 103-104) and every submitted
\* unit eventually completing, the batch eventually terminates, whichever
\* extractions fail and whichever submissions raise; before the end the
\* program always has a step to take (no deadlock).
C13_Termination ==
    /\ (per_pdf_limit >= 1) ~> (pc = "done")
    /\ []((per_pdf_limit >= 1 /\ pc # "done") => ENABLED Next)

\* a finished batch with a failed submission, an extraction that returned
\* err and a future that raised
C13_Witness ==
    /\ pc = "done"
    /\ per_pdf_limit >= 1
    /\ \E r1, r2, r3 \in BagToSet(log) :
          /\ r1.kind = "SUBMIT_FAIL"
          /\ r2.kind = "ERR" /\ r2.res = "err"
          /\ r3.kind = "ERR" /\ r3.res = "None"

(* ----------------------------------------------------------------------- *)
\* a step that attempts an admission: a unit is created, or a submit raised
AdmissionAttempt == nfut' = nfut + 1 \/ SubmitFailedStep

\* C14 Page-cursor invariant: for every document 1 <= next_page <=
\* num_pages + 1 in every reachable state; next_page never decreases, it
\* grows by exactly one per admission attempt and by nothing otherwise; the
\* units of one document are created in strictly increasing page order
\* (each page at most once), the new unit carrying the page the cursor
\* showed; and no unit is created for a document whose next_page exceeds
\* num_pages.
C14_PageCursor ==
    /\ [](\A k \in Docs :
            1 <= pdfs[k].next_page /\ pdfs[k].next_page <= pdfs[k].num_pages + 1)
    /\ [](\A f, g \in DOMAIN pool :
            (f < g /\ pool[f].path = pool[g].path) => pool[f].page < pool[g].page)
    /\ [](\A k \in Docs :
            /\ \A f \in DOMAIN pool :
                  pool[f].path = pdfs[k].path => pool[f].page < pdfs[k].next_page
            /\ \A r \in BagToSet(log) :
                  r.pdf = pdfs[k].path => r.page < pdfs[k].next_page)
    /\ [][ /\ AdmissionAttempt =>
                \E k \in Docs :
                   /\ pdfs[k].next_page <= pdfs[k].num_pages
                   /\ pdfs' = [pdfs EXCEPT ![k].next_page = @ + 1]
                   /\ (nfut' = nfut + 1) =>
                         /\ pool'[nfut'].path = pdfs[k].path
                         /\ pool'[nfut'].page = pdfs[k].next_page
                         /\ DOMAIN pool' = DOMAIN pool \cup {nfut'}
           /\ ~AdmissionAttempt => (pdfs' = pdfs /\ DOMAIN pool' \subseteq DOMAIN pool)
         ]_vars

\* a document of MaxPages pages whose cursor has run past the last page,
\* one page submitted and one whose submission failed
C14_Witness ==
    \E k \in Docs :
       /\ pdfs[k].num_pages = MaxPages
       /\ pdfs[k].next_page = MaxPages + 1
       /\ \E f \in DOMAIN pool : pool[f].path = pdfs[k].path /\ pool[f].page = MaxPages
       /\ CopiesIn(SubmitFailRec(pdfs[k].path, 1), log) = 1

(* ----------------------------------------------------------------------- *)
\* the records written by the drain step (lines 162 and 164)
DrainedRecs == { r \in BagToSet(log) : r.kind # "SUBMIT_FAIL" }

\* C15 Drain step effect and frame: a step that drains a completed unit of
\* document D removes exactly that unit from futures, lowers D's counter by
\* exactly one, leaves every other counter, every next_page and every other
\* entry of futures unchanged, and records one Result for the unit's page;
\* a drained unit never comes back, and the number of drain records is the
\* number of submitted units that have left futures (each is drained once).
C15_DrainFrame ==
    /\ [][ (futures' # futures /\ nfut' = nfut) =>
             \E f \in done :
                /\ DrainBookkeeping(f)
                /\ \A p \in InputPaths :
                      p # futures[f].pdf
                          => per_pdf_outstanding'[p] = per_pdf_outstanding[p]
                /\ \A g \in Handles \ {f} : g \in Handles' /\ futures'[g] = futures[g]
                /\ BagCardinality(log') = BagCardinality(log) + 1
                /\ \E r \in BagToSet(log') :
                      /\ Added(r)
                      /\ r.kind # "SUBMIT_FAIL"
                      /\ r.pdf = futures[f].pdf
                      /\ r.page = futures[f].page ]_vars
    /\ [][ \A f \in 1..nfut : f \notin Handles => f \notin Handles' ]_vars
    /\ [](Handles \subseteq 1..nfut)
    /\ [](SumCopies(DrainedRecs) = nfut - Cardinality(Handles))

\* two units of one document were in flight and one of them has been
\* drained while the other document's unit is still outstanding
C15_Witness ==
    /\ Len(pdfs) = 2
    /\ per_pdf_outstanding[pdfs[1].path] = 1
    /\ per_pdf_outstanding[pdfs[2].path] = 1
    /\ nfut = 3
    /\ pdfs[1].next_page = 3
    /\ SumCopies(DrainedRecs) = 1
    /\ pc = "drain"

(* ----------------------------------------------------------------------- *)
\* the coordinator has no step of its own to take
Blocked == ~ENABLED Coordinator

\* C16 Coordinator suspension: before the end the coordinator is blocked
\* only inside wait (line 149), with at least one unit outstanding and none
\* of them finished yet; it enters wait only with futures non-empty; it is
\* never blocked in the admission phase; and every wait is ended by the
\* completion of an outstanding unit.
C16_Suspension ==
    /\ []((Blocked /\ pc # "done") =>
            /\ pc = "wait"
            /\ Handles # {}
            /\ \A f \in Handles : pool[f].state = "pending")
    /\ [](pc = "wait" => Handles # {})
    /\ [](pc \in {"admit", "scan"} => ~Blocked)
    /\ [][ (pc = "wait" /\ pc' # "wait") =>
               (pc' = "drain" /\ done' # {} /\ done' \subseteq Handles) ]_vars
    /\ (pc = "wait") ~> (pc = "drain")

\* the coordinator is blocked in wait on two unfinished units
C16_Witness ==
    /\ pc = "wait"
    /\ Cardinality(Handles) = 2
    /\ \A f \in Handles : pool[f].state = "pending"
    /\ Blocked

(* ----------------------------------------------------------------------- *)
\* the sum of the per-document counters over a set of paths
RECURSIVE SumOutstanding(_)
SumOutstanding(paths) ==
    IF paths = {} THEN 0
    ELSE LET p == CHOOSE x \in paths : TRUE
         IN  per_pdf_outstanding[p] + SumOutstanding(paths \ {p})

\* C17 Counter consistency: in every reachable state, for every document
\* path D, per_pdf_outstanding[D] is the number of entries of futures whose
\* metadata names D, and the counters add up to the size of futures; hence
\* the counter of a unit's document is >= 1 whenever the unit can be
\* drained, and the clamp max(0, ...) of line 159 never takes effect.
C17_CounterConsistency ==
    /\ \A p \in InputPaths : per_pdf_outstanding[p] = Cardinality(UnitsOf(p))
    /\ SumOutstanding(InputPaths) = Cardinality(Handles)
    /\ \A f \in Handles :
          /\ per_pdf_outstanding[futures[f].pdf] >= 1
          /\ Decrement(per_pdf_outstanding[futures[f].pdf])
                = per_pdf_outstanding[futures[f].pdf] - 1

\* the drain is about to take one of three units in flight, two of them of
\* the same document
C17_Witness ==
    /\ pc = "drain"
    /\ done # {}
    /\ Cardinality(Handles) = 3
    /\ \E p \in InputPaths : per_pdf_outstanding[p] = 2
    /\ \E p \in InputPaths : per_pdf_outstanding[p] = 1

(* ----------------------------------------------------------------------- *)
\* no submission has failed so far
NoSubmitFailure == \A r \in BagToSet(log) : r.kind # "SUBMIT_FAIL"

\* the coordinator is at line 145 with nothing outstanding: it will sleep
AtSleepBranch == pc = "check" /\ Handles = {}

\* C18 Sleep branch reachability: with per_pdf_limit >= 1 (max_outstanding
\* is always >= 1) and no submission failure, the admission phase never
\* ends with nothing outstanding, so the sleep-and-retry branch is not
\* executed; it is reached only after a submission failure or with a
\* non-positive per-document cap.
C18_SleepUnreachable ==
    (per_pdf_limit >= 1 /\ NoSubmitFailure) => ~AtSleepBranch

\* an admission phase has ended with pages still to start, a positive cap
\* and no failed submission: units are outstanding
C18_Witness ==
    /\ pc = "check"
    /\ per_pdf_limit >= 1
    /\ NoSubmitFailure
    /\ AnyPending
    /\ Handles # {}

(* ----------------------------------------------------------------------- *)
\* the per-document cap admits nothing although a document has a page
CapShutsOut == per_pdf_limit <= 0 /\ \E k \in Docs : pdfs[k].num_pages >= 1

\* C19 Non-positive per-document cap: if per_pdf_limit <= 0 and some
\* document has at least one page, no unit is ever admitted, every
\* next_page keeps its initial value, nothing is recorded and the batch
\* never terminates: the coordinator goes round the admission scan and the
\* sleep branch for ever.
C19_NonPositiveCap ==
    /\ [](CapShutsOut =>
            /\ pc \in {"loop", "admit", "scan", "check"}
            /\ nfut = 0
            /\ Handles = {}
            /\ log = EmptyBag
            /\ \A k \in Docs : pdfs[k].next_page = 1)
    /\ CapShutsOut ~> (pc = "scan")
    /\ CapShutsOut ~> AtSleepBranch
    /\ [][ CapShutsOut => (pc = "check" => pc' = "loop") ]_vars

\* cap 0 and a document with pages: a scan has ended and the coordinator is
\* about to sleep
C19_Witness ==
    /\ per_pdf_limit = 0
    /\ AtSleepBranch
    /\ \E k \in Docs : pdfs[k].num_pages = MaxPages /\ pdfs[k].next_page = 1

(* ----------------------------------------------------------------------- *)
\* the file the worker of unit f writes (lines 45-49 and 83-86)
DestinationOf(f) == MdPath(pool[f].path, pool[f].page, pool[f].outdir)

\* C20 Output destinations are distinct: two distinct units of the batch
\* (different document, or same document and different page) never have
\* the same output destination, neither while both are with the workers nor
\* among the successes recorded, also when two documents have different
\* paths and equal stems.
C20_DistinctDestinations ==
    /\ \A f, g \in DOMAIN pool : f # g => DestinationOf(f) # DestinationOf(g)
    /\ \A r, q \in BagToSet(log) :
          (r.kind = "OK" /\ q.kind = "OK" /\ r # q) => r.md # q.md

====
